---- MODULE Spec2Model ----
(***************************************************************************)
(* A model of openstack-lb-info: the command-line entry point (main.py),   *)
(* the tree builders LoadBalancerInfo and AmphoraInfo                      *)
(* (loadbalancer_info.py), the tree operations of the plain formatter and  *)
(* the OpenStackAPI lookups, which are the environment: every lookup       *)
(* returns a resource, None (not found) or raises.                         *)
(***************************************************************************)
EXTENDS Integers, Sequences, FiniteSets, TLC

\* ------------------------------------------------------------------ bounds
MaxLbs == 2
MaxListeners == 2
MaxMembers == 2
MaxAmphorae == 2
MaxImages == 2
MaxIds == 2

\* ------------------------------------------------------- program constants
MAX_WORKERS_LIMIT == 32
DefaultMaxWorkers == 4

\* Python's None, as an id and as the name of an image that is not cached.
None == 0

Min(a, b) == IF a <= b THEN a ELSE b

VARIABLES
    pc,            \* control point of main and of the builder it runs
    argv,          \* the text given to --max-workers on the command line, or NoOption
    args,          \* argparse.Namespace: type, details, no_members, max_workers
    context,       \* ProcessingContext built by main
    filtered_lbs,  \* the load balancers main iterates over
    lbi,           \* index in filtered_lbs of the load balancer being displayed
    lb_tree,       \* self.lb_tree: the nodes of the current builder's tree
    li,            \* index in lb.listeners of the listener being added
    listener,      \* the listener found by add_listener_info
    pool_tree,     \* the tree argument of add_pool_info: the index of a node
    pool,          \* the pool found by add_pool_info
    mi,            \* index in pool_members of the member being added
    amphoraes,     \* the amphorae listed by display_amp_info
    ai,            \* index in amphoraes of the amphora being added
    cloud,         \* what the API has answered for the resources of this load balancer
    pending,       \* lookups issued to the OpenStack API and not yet returned
    calls,         \* lookups issued by the current builder, in order
    images_name,   \* AmphoraInfo.images_name: the class-level image-name cache
    image_calls,   \* the batched image lookups of the whole run, in order
    printed,       \* indexes of the load balancers whose tree was printed
    output,        \* messages main printed
    resolvers,     \* callers of get_images_name that run side by side, each with its locals
    raised,        \* the lookup whose error is propagating, or NoCall
    formatter,     \* the output formatter: "rich", "plain" or "json"
    status_text,   \* the status argument of format_status
    styled,        \* what format_status returned, as pieces of text; <<>> before the call
    sequence,      \* the sequence argument of track_progress
    tracked,       \* the iterable track_progress returned and what is left of it
    progress_bar,  \* the number of advances of the progress bar's task
    yielded,       \* the items the caller of track_progress has received, in order
    exit_status    \* the process's exit status, or Running

vars == <<pc, argv, args, context, filtered_lbs, lbi, lb_tree, li, listener, pool_tree, pool, mi,
          amphoraes, ai, cloud, pending, calls, images_name, image_calls, resolvers,
          printed, output, raised, exit_status, formatter, status_text, styled, sequence,
          tracked, progress_bar, yielded>>

mainVars == <<argv, args, context, filtered_lbs>>
lbLocals == <<li, listener, pool_tree, pool, mi>>
ampLocals == <<amphoraes, ai>>
cacheVars == <<images_name, image_calls, resolvers>>
formatterVars == <<formatter, status_text, styled, sequence, tracked, progress_bar, yielded>>

\* ------------------------------------------------------------- values
Running == 0 - 1
\* The "N/A" sentinel of add_amphora_to_tree.
NA == 0 - 1

Types == {"lb", "amphora"}

\* A lookup issued to the OpenStack API: the operation, the id looked up and,
\* for find_member, the pool the member is looked up in.
Call(op, id, pool_id) == [op |-> op, id |-> id, pool_id |-> pool_id]
NoCall == Call("none", None, None)

\* ---------------------------------------------------- the cloud's answers
\* A list of n references, in an order that is not the order of the ids:
\* n, n-1, .., 1.
Refs(n) == [i \in 1..n |-> n + 1 - i]

\* lb.listeners: the listener references of a load balancer, in the API's order.
ListenerLists == {Refs(n) : n \in 0..MaxListeners}

\* load_balancer.load_balancers(**filter_criteria): n load balancers; the one
\* at position k has id k, and the numbers of listeners of consecutive load
\* balancers are consecutive modulo MaxListeners + 1, so that every number of
\* listeners is met at every position.
LbLists ==
    {[k \in 1..n |-> [id |-> k,
                      listeners |-> Refs((s + k) % (MaxListeners + 1))]] :
        n \in 0..MaxLbs, s \in 0..MaxListeners}

\* pool.members: the member references of a pool, in the API's order.
MemberLists == {Refs(n) : n \in 0..MaxMembers}

\* find_listener(id): raises, returns None, or returns the listener, whose
\* default_pool_id is None or the id of its pool.
\* The listeners of a load balancer that have a default pool have the same one.
SharedPool == 1

ListenerResults(id) ==
    {[tag |-> t, id |-> id, default_pool_id |-> None] : t \in {"error", "absent", "found"}}
    \cup {[tag |-> "found", id |-> id, default_pool_id |-> SharedPool]}

\* find_pool(id): raises, returns None, or returns the pool.
PoolResults(id) ==
    {[tag |-> t, id |-> id, health_monitor_id |-> None, members |-> <<>>] :
        t \in {"error", "absent"}}
    \cup {[tag |-> "found", id |-> id, health_monitor_id |-> h, members |-> ms] :
             h \in {None, id}, ms \in MemberLists}

\* find_health_monitor(id), find_member(id, pool_id), find_server(id).
ResourceResults(id) == {[tag |-> t, id |-> id] : t \in {"error", "absent", "found"}}

NoPool == [tag |-> "absent", id |-> None, health_monitor_id |-> None, members |-> <<>>]

\* ------------------------------------------------------------- the tree
\* The text of a node, by its shape: the text format_fn makes of a resource
\* ("resource": the label, the resource's id and the other fields shown), the
\* text "<label>: None" ("none": no id is part of it) and the text
\* "<attribute>: <value>" of detailed mode ("attr").
Formatted(label, rid, info) == [kind |-> "resource", label |-> label, rid |-> rid,
                                info |-> info]
LabelNone(label) == [kind |-> "none", label |-> label, rid |-> None, info |-> <<>>]
AttrLine(attr) == [kind |-> "attr", label |-> "attr", rid |-> attr, info |-> <<>>]

\* A node of the plain formatter's tree: its text and the index of the node
\* whose children list holds it (0 for the root); the order of a children list
\* is the order of the indexes.
Node(parent, content) ==
    [parent |-> parent, kind |-> content.kind, label |-> content.label,
     rid |-> content.rid, info |-> content.info]

\* formatter.create_tree(name)
create_tree(content) == <<Node(0, content)>>

\* Faulty variant of add_to_tree: the child is put before its siblings.
add_to_tree_first(tree, parent, content) ==
    <<Head(tree)>> \o <<[parent |-> parent, kind |-> content.kind, label |-> content.label,
                         rid |-> content.rid, info |-> content.info]>> \o Tail(tree)

\* Faulty variant of add_to_tree: a member's node is put before the member's
\* node that was attached last, as when the results of member fetches are
\* attached in an order that is not the order of pool.members.
add_to_tree_unordered(tree, parent, content) ==
    IF content.label = "Member" /\ tree[Len(tree)].label = "Member"
    THEN SubSeq(tree, 1, Len(tree) - 1)
         \o <<[parent |-> parent, kind |-> content.kind, label |-> content.label,
               rid |-> content.rid, info |-> content.info], tree[Len(tree)]>>
    ELSE Append(tree, [parent |-> parent, kind |-> content.kind,
                       label |-> content.label, rid |-> content.rid,
                       info |-> content.info])

\* formatter.add_to_tree(tree, content): appends the child to tree["children"];
\* the child returned is the node at index Len + 1.
add_to_tree(tree, parent, content) == Append(tree, Node(parent, content))

\* obj.to_dict(): the attribute names of a resource, in declaration order.
\* An attribute name is kept as its rank in the lexicographic order.
to_dict(label) ==
    CASE label = "LB" -> <<3, 1, 2>>
      [] label = "Listener" -> <<2, 1>>
      [] label = "Pool" -> <<2, 3, 1>>
      [] label = "Health Monitor" -> <<1, 2>>
      [] label = "Member" -> <<2, 1>>
      [] OTHER -> <<1, 3, 2>>

Range(f) == {f[i] : i \in DOMAIN f}

\* sorted(obj_dict): the keys in ascending order.
RECURSIVE sorted(_)
sorted(S) ==
    IF S = {} THEN <<>>
    ELSE LET m == CHOOSE x \in S : \A y \in S : x <= y
         IN <<m>> \o sorted(S \ {m})

\* add_to_tree for each key of a sorted key sequence, under node `parent`.
RECURSIVE add_attrs(_, _, _)
add_attrs(tree, parent, keys) ==
    IF keys = <<>> THEN tree
    ELSE add_attrs(add_to_tree(tree, parent, AttrLine(Head(keys))), parent, Tail(keys))

\* Faulty variant of _add_all_attr_to_tree: the attributes are added in the
\* order of the dict, not sorted.
_add_all_attr_to_tree_unsorted(tree, label, parent) ==
    add_attrs(tree, parent, to_dict(label))

\* LoadBalancerInfo._add_all_attr_to_tree(obj, tree)
_add_all_attr_to_tree(tree, label, parent) ==
    add_attrs(tree, parent, sorted(Range(to_dict(label))))

\* Faulty variant of _retrieve_and_add_to_tree: a resource that was not found
\* leaves no node.
_retrieve_and_add_to_tree_found_only(tree, label, resource, parent, details) ==
    IF resource.tag = "found"
    THEN LET t == add_to_tree(tree, parent, Formatted(label, resource.id, <<>>))
         IN IF details THEN _add_all_attr_to_tree(t, label, Len(t)) ELSE t
    ELSE tree

\* LoadBalancerInfo._retrieve_and_add_to_tree, after retrieve_method returned
\* `resource`: the resource's node (and its attributes in detailed mode) or
\* the "<label>: None" node, added to the children of node `parent`.
_retrieve_and_add_to_tree(tree, label, resource, parent, details) ==
    IF resource.tag = "found"
    THEN LET t == add_to_tree(tree, parent, Formatted(label, resource.id, <<>>))
         IN IF details THEN _add_all_attr_to_tree(t, label, Len(t)) ELSE t
    ELSE add_to_tree(tree, parent, LabelNone(label))

\* LoadBalancerInfo.create_lb_tree
create_lb_tree(lb, details) ==
    LET t == create_tree(Formatted("LB", lb.id, <<>>))
    IN IF details THEN _add_all_attr_to_tree(t, "LB", 1) ELSE t

\* ------------------------------------------------------- the command line
\* A value given to --max-workers: text that int() parses to v, or text that
\* int() rejects.
MaxWorkersTexts ==
    {[isint |-> TRUE, v |-> n] : n \in {0, 1, MAX_WORKERS_LIMIT, MAX_WORKERS_LIMIT + 1}}
    \cup {[isint |-> FALSE, v |-> 0]}

\* --max-workers is not on the command line.
NoOption == [isint |-> FALSE, v |-> 0 - 1]

\* Faulty variant of validate_int_range: the upper limit is not checked.
validate_int_range_open(min_val, max_val, value_str) ==
    IF ~value_str.isint THEN [ok |-> FALSE, value |-> 0]
    ELSE IF value_str.v < min_val
         THEN [ok |-> FALSE, value |-> 0]
         ELSE [ok |-> TRUE, value |-> value_str.v]

\* validate_int_range(min_val, max_val)(value_str): the value, or an
\* ArgumentTypeError.
validate_int_range(min_val, max_val, value_str) ==
    IF ~value_str.isint THEN [ok |-> FALSE, value |-> 0]
    ELSE IF value_str.v < min_val \/ value_str.v > max_val
         THEN [ok |-> FALSE, value |-> 0]
         ELSE [ok |-> TRUE, value |-> value_str.v]

\* The names of load balancers and the --name filter, as sequences of letters.
LbName(k) == IF k = 1 THEN <<"a", "b">> ELSE <<"a", "c">>
NameFilters == {<<>>, <<"b">>, <<"d">>}

\* `sub in name` for Python strings.
IsSubstring(sub, name) ==
    \E i \in 0..(Len(name) - Len(sub)) :
        \A j \in 1..Len(sub) : name[i + j] = sub[j]

\* [x for x in seq if keep(x)], for the name filter of query_openstack_lbs.
RECURSIVE FilterByName(_, _)
FilterByName(lbs, name) ==
    IF lbs = <<>> THEN <<>>
    ELSE IF IsSubstring(name, LbName(Head(lbs).id))
         THEN <<Head(lbs)>> \o FilterByName(Tail(lbs), name)
         ELSE FilterByName(Tail(lbs), name)

\* Faulty variant of query_openstack_lbs: the name filter is not applied.
query_openstack_lbs_unfiltered(lbs, name) == lbs

\* query_openstack_lbs, after retrieve_load_balancers returned `lbs`: an empty
\* --name (None) keeps the whole list.
query_openstack_lbs(lbs, name) ==
    IF name # <<>> THEN FilterByName(lbs, name) ELSE lbs

NoArgs == [type |-> "lb", details |-> FALSE, no_members |-> FALSE, max_workers |-> 0,
           name |-> <<>>]
NoContext == [details |-> FALSE, max_workers |-> 0, no_members |-> FALSE]
NoListener == [tag |-> "absent", id |-> None, default_pool_id |-> None]

\* No track_progress call has been made: there is no iterable.
NotTracked == [called |-> FALSE, items |-> <<>>, advance |-> FALSE]

\* The formatter before any call of format_status or track_progress.
FormatterIdle ==
    /\ formatter = "plain"
    /\ status_text = ""
    /\ styled = <<>>
    /\ sequence = <<>>
    /\ tracked = NotTracked
    /\ progress_bar = 0
    /\ yielded = <<>>

Init ==
    /\ pc = "start"
    /\ argv = NoOption
    /\ args = NoArgs
    /\ context = NoContext
    /\ filtered_lbs = <<>>
    /\ lbi = 0
    /\ lb_tree = <<>>
    /\ li = 0
    /\ listener = NoListener
    /\ pool_tree = 0
    /\ pool = NoPool
    /\ mi = 0
    /\ amphoraes = <<>>
    /\ ai = 0
    /\ cloud = <<>>
    /\ pending = {}
    /\ calls = <<>>
    /\ images_name = <<>>
    /\ image_calls = <<>>
    /\ resolvers = <<>>
    /\ printed = <<>>
    /\ output = <<>>
    /\ raised = NoCall
    /\ exit_status = Running
    /\ FormatterIdle

\* sys.exit(status), also argparse's parser.error (status 2).
Exit(status) ==
    /\ pc' = "exit"
    /\ exit_status' = status

\* parse_parameters: without arguments the help is printed and the process
\* exits 0; a --max-workers value the validator rejects is an argument error;
\* when the option is not given max_workers is the default.
parse_parameters ==
    /\ pc = "start"
    /\ \/ /\ Exit(0)
          /\ UNCHANGED <<argv, args>>
       \/ \E t \in Types, d \in BOOLEAN, nm \in BOOLEAN, n \in NameFilters :
            \/ /\ args' = [type |-> t, details |-> d, no_members |-> nm,
                           max_workers |-> DefaultMaxWorkers, name |-> n]
               /\ pc' = "main"
               /\ UNCHANGED <<argv, exit_status>>
            \/ \E text \in MaxWorkersTexts :
                 LET r == validate_int_range(1, MAX_WORKERS_LIMIT, text)
                 IN /\ argv' = text
                    /\ IF r.ok
                       THEN /\ args' = [type |-> t, details |-> d, no_members |-> nm,
                                        max_workers |-> r.value, name |-> n]
                            /\ pc' = "main"
                            /\ UNCHANGED exit_status
                       ELSE /\ Exit(2)
                            /\ UNCHANGED args
    /\ UNCHANGED <<cloud, context, filtered_lbs, lbi, lb_tree, lbLocals, ampLocals, pending,
                   calls, cacheVars, formatterVars, printed, output, raised>>

\* main, from the formatter to the ProcessingContext: the connection or the
\* query may fail (exit 1 with the error); an empty result prints a message
\* and exits 1.
main ==
    /\ pc = "main"
    /\ \/ /\ Exit(1)
          /\ output' = Append(output, "Error")
          /\ UNCHANGED <<context, filtered_lbs>>
       \/ \E lbs \in LbLists :
            LET found == query_openstack_lbs(lbs, args.name)
            IN /\ filtered_lbs' = found
               /\ IF found = <<>>
                  THEN /\ output' = Append(output, "No load balancer(s) found.")
                       /\ Exit(1)
                       /\ UNCHANGED context
                  ELSE /\ context' = [details |-> args.details,
                                      max_workers |-> args.max_workers,
                                      no_members |-> args.no_members]
                       /\ pc' = "loop"
                       /\ UNCHANGED <<output, exit_status>>
    /\ UNCHANGED <<cloud, argv, args, lbi, lb_tree, lbLocals, ampLocals, pending, calls, cacheVars,
                   formatterVars,
                   printed, raised>>

\* The load balancer being displayed.
lb == filtered_lbs[lbi]

\* main's loop over filtered_lbs: builds the next load balancer's builder
\* (AmphoraInfo.__init__ creates the tree at once), or ends the run.
main_loop ==
    /\ pc = "loop"
    /\ IF lbi < Len(filtered_lbs)
       THEN /\ lbi' = lbi + 1
            /\ calls' = <<>>
            /\ cloud' = <<>>
            /\ amphoraes' = <<>>
            /\ ai' = 0
            /\ li' = 0
            /\ listener' = NoListener
            /\ pool_tree' = 0
            /\ pool' = NoPool
            /\ mi' = 0
            /\ IF args.type = "amphora"
               THEN /\ lb_tree' = create_lb_tree(filtered_lbs[lbi + 1], context.details)
                    /\ pc' = "display_amp_info"
               ELSE /\ lb_tree' = <<>>
                    /\ pc' = "display_lb_info"
            /\ UNCHANGED exit_status
       ELSE /\ Exit(0)
            /\ UNCHANGED <<lbi, calls, cloud, lb_tree, ampLocals, lbLocals>>
    /\ UNCHANGED <<mainVars, pending, cacheVars, formatterVars, printed, output, raised>>

\* --------------------------------------------------------- the lookups
\* A lookup is issued: it is in flight until it returns or raises.
Issue(c) ==
    /\ pending' = pending \cup {c}
    /\ calls' = Append(calls, c)

\* Faulty variant of Returned: the lookup is handed to a worker and the caller
\* goes on without waiting for it, so it stays in flight.
ReturnedNotAwaited(inflight, c) == inflight

\* The in-flight lookups once lookup c has returned or raised: every lookup
\* of the builders is a blocking call made by the one thread of the process.
Returned(inflight, c) == inflight \ {c}

\* The answers lookup c can get: the resources of a load balancer do not
\* change while it is displayed, so a lookup that is repeated gets the answer
\* it got before.
Answers(c, results) == IF c \in DOMAIN cloud THEN {cloud[c]} ELSE results

\* The answers so far, with the answer r to lookup c.
Answered(c, r) == [x \in DOMAIN cloud \cup {c} |-> IF x = c THEN r ELSE cloud[x]]

\* Faulty variant of Raise: main's loop catches the error and goes on with the
\* next load balancer.
Raise_caught(c) ==
    /\ raised' = c
    /\ pc' = "loop"
    /\ exit_status' = exit_status

\* Faulty variant of Raise: the lookup that raised is issued again.
Raise_retry(c) ==
    /\ raised' = raised
    /\ exit_status' = exit_status
    /\ pc' = CASE c.op = "find_listener" -> "add_listener_info"
              [] c.op = "find_pool" -> "add_pool_info"
              [] c.op = "find_health_monitor" -> "add_health_monitor_info"
              [] c.op = "find_member" -> "add_pool_members"
              [] c.op = "amphorae" -> "display_amp_info"
              [] OTHER -> "add_amphora_to_tree"

\* An error raised by a lookup is caught by no handler of the builders or of
\* main's loop: the process ends with a traceback.
Raise(c) ==
    /\ raised' = c
    /\ pc' = "crashed"
    /\ exit_status' = 1

\* ----------------------------------------------- LoadBalancerInfo
\* Faulty variant of NextListener: the loop ends after its first turn.
NextListener_first ==
    /\ li' = li
    /\ pc' = "print_tree"

\* display_lb_info's loop over lb.listeners, after add_listener_info returned.
NextListener ==
    IF li < Len(lb.listeners)
    THEN /\ li' = li + 1
         /\ pc' = "add_listener_info"
    ELSE /\ li' = li
         /\ pc' = "print_tree"

\* Faulty variant of MemberBranch: add_pool_info returns after the health
\* monitor branch.
MemberBranch_skipped(t, p) ==
    /\ lb_tree' = t
    /\ mi' = mi
    /\ NextListener

\* add_pool_info's member branch, on tree t: add_pool_members for a pool
\* that has member references, a "Member: None" node otherwise.
MemberBranch(t, p) ==
    IF p.members # <<>>
    THEN /\ lb_tree' = t
         /\ mi' = 1
         /\ pc' = "add_pool_members"
         /\ li' = li
    ELSE /\ lb_tree' = add_to_tree(t, pool_tree, LabelNone("Member"))
         /\ mi' = mi
         /\ NextListener

\* Faulty variant of no_listeners: nothing is attached.
no_listeners_bare(t) == t

\* display_lb_info's branch `if not self.lb.listeners`: the "Listener: None"
\* node under self.lb_tree.
no_listeners(t) == add_to_tree(t, 1, LabelNone("Listener"))

\* display_lb_info, up to the first listener lookup.
display_lb_info ==
    /\ pc = "display_lb_info"
    /\ LET t == create_lb_tree(lb, context.details)
       IN IF lb.listeners = <<>>
          THEN /\ lb_tree' = no_listeners(t)
               /\ li' = 0
               /\ pc' = "print_tree"
          ELSE /\ lb_tree' = t
               /\ li' = 1
               /\ pc' = "add_listener_info"
    /\ UNCHANGED <<cloud, mainVars, lbi, listener, pool_tree, pool, mi, ampLocals, pending,
                   calls, cacheVars, formatterVars, printed, output, raised, exit_status>>

\* Faulty variant of listener_found: the test is missing.
listener_found_always(r) == TRUE

\* add_listener_info's `if listener:`.
listener_found(r) == r.tag = "found"

\* add_listener_info: the listener lookup is issued.
add_listener_info ==
    /\ pc = "add_listener_info"
    /\ Issue(Call("find_listener", lb.listeners[li], None))
    /\ pc' = "retrieve_listener"
    /\ UNCHANGED <<cloud, mainVars, lbi, lb_tree, lbLocals, ampLocals, cacheVars,
                   formatterVars, printed,
                   output, raised, exit_status>>

\* add_listener_info, from the return of the listener lookup: the node or the
\* "Listener: None" node under self.lb_tree; for a listener that was found,
\* add_pool_info(self.lb_tree, default_pool_id) or a "Pool: None" node under
\* self.lb_tree.
retrieve_listener ==
    /\ pc = "retrieve_listener"
    /\ LET c == Call("find_listener", lb.listeners[li], None)
       IN /\ pending' = Returned(pending, c)
          /\ \E r \in Answers(c, ListenerResults(c.id)) :
             /\ cloud' = Answered(c, r)
             /\ IF r.tag = "error"
               THEN /\ Raise(c)
                    /\ UNCHANGED <<lb_tree, lbLocals>>
               ELSE LET t == _retrieve_and_add_to_tree(lb_tree, "Listener", r, 1,
                                                       context.details)
                    IN /\ listener' = r
                       /\ IF listener_found(r)
                          THEN IF r.default_pool_id # None
                               THEN /\ lb_tree' = t
                                    /\ pool_tree' = 1
                                    /\ pc' = "add_pool_info"
                                    /\ li' = li
                               ELSE /\ lb_tree' = add_to_tree(t, 1, LabelNone("Pool"))
                                    /\ NextListener
                                    /\ UNCHANGED pool_tree
                          ELSE /\ lb_tree' = t
                               /\ NextListener
                               /\ UNCHANGED pool_tree
                       /\ UNCHANGED <<pool, mi, raised, exit_status>>
    /\ UNCHANGED <<mainVars, lbi, ampLocals, calls, cacheVars, formatterVars, printed, output>>

\* Faulty variant of pool_found: the test is missing.
pool_found_always(r) == TRUE

\* add_pool_info's `if pool:`.
pool_found(r) == r.tag = "found"

\* add_pool_info: the pool lookup is issued.
add_pool_info ==
    /\ pc = "add_pool_info"
    /\ Issue(Call("find_pool", listener.default_pool_id, None))
    /\ pc' = "retrieve_pool"
    /\ UNCHANGED <<cloud, mainVars, lbi, lb_tree, lbLocals, ampLocals, cacheVars,
                   formatterVars, printed,
                   output, raised, exit_status>>

\* add_pool_info, from the return of the pool lookup: the node or the
\* "Pool: None" node under `tree`; for a pool that was found, the health
\* monitor branch and then the member branch, both on the same `tree`.
retrieve_pool ==
    /\ pc = "retrieve_pool"
    /\ LET c == Call("find_pool", listener.default_pool_id, None)
       IN /\ pending' = Returned(pending, c)
          /\ \E r \in Answers(c, PoolResults(c.id)) :
             /\ cloud' = Answered(c, r)
             /\ IF r.tag = "error"
               THEN /\ Raise(c)
                    /\ UNCHANGED <<lb_tree, lbLocals>>
               ELSE LET t == _retrieve_and_add_to_tree(lb_tree, "Pool", r, pool_tree,
                                                       context.details)
                    IN /\ pool' = r
                       /\ IF pool_found(r)
                          THEN IF r.health_monitor_id # None
                               THEN /\ lb_tree' = t
                                    /\ pc' = "add_health_monitor_info"
                                    /\ UNCHANGED <<li, mi>>
                               ELSE MemberBranch(
                                        add_to_tree(t, pool_tree,
                                                    LabelNone("Health Monitor")), r)
                          ELSE /\ lb_tree' = t
                               /\ NextListener
                               /\ mi' = mi
                       /\ UNCHANGED <<listener, pool_tree, raised, exit_status>>
    /\ UNCHANGED <<mainVars, lbi, ampLocals, calls, cacheVars, formatterVars, printed, output>>

\* add_health_monitor_info: the health monitor lookup is issued.
add_health_monitor_info ==
    /\ pc = "add_health_monitor_info"
    /\ Issue(Call("find_health_monitor", pool.health_monitor_id, None))
    /\ pc' = "retrieve_health_monitor"
    /\ UNCHANGED <<cloud, mainVars, lbi, lb_tree, lbLocals, ampLocals, cacheVars,
                   formatterVars, printed,
                   output, raised, exit_status>>

\* add_health_monitor_info, from the return of the lookup, and add_pool_info's
\* member branch after it.
retrieve_health_monitor ==
    /\ pc = "retrieve_health_monitor"
    /\ LET c == Call("find_health_monitor", pool.health_monitor_id, None)
       IN /\ pending' = Returned(pending, c)
          /\ \E r \in Answers(c, ResourceResults(c.id)) :
             /\ cloud' = Answered(c, r)
             /\ IF r.tag = "error"
               THEN /\ Raise(c)
                    /\ UNCHANGED <<lb_tree, li, mi>>
               ELSE /\ MemberBranch(
                           _retrieve_and_add_to_tree(lb_tree, "Health Monitor", r,
                                                     pool_tree, context.details), pool)
                    /\ UNCHANGED <<raised, exit_status>>
    /\ UNCHANGED <<mainVars, lbi, listener, pool_tree, pool, ampLocals, calls, cacheVars,
                   formatterVars,
                   printed, output>>

\* Faulty variant of more_members: the loop stops one member early.
more_members_short(i, pool_members) == i + 1 < Len(pool_members)

\* add_pool_members' `for member in pool_members`: after turn i there is
\* another turn.
more_members(i, pool_members) == i < Len(pool_members)

\* add_pool_members, one turn of its loop: the lookup of member mi is issued.
add_pool_members ==
    /\ pc = "add_pool_members"
    /\ Issue(Call("find_member", pool.members[mi], pool.id))
    /\ pc' = "retrieve_member"
    /\ UNCHANGED <<cloud, mainVars, lbi, lb_tree, lbLocals, ampLocals, cacheVars,
                   formatterVars, printed,
                   output, raised, exit_status>>

\* add_pool_members, the rest of the turn: the member's node or the
\* "Member: None" node under pool_tree, then the next member, or the return
\* to display_lb_info's loop after the last one.
retrieve_member ==
    /\ pc = "retrieve_member"
    /\ LET c == Call("find_member", pool.members[mi], pool.id)
       IN /\ pending' = Returned(pending, c)
          /\ \E r \in Answers(c, ResourceResults(c.id)) :
             /\ cloud' = Answered(c, r)
             /\ IF r.tag = "error"
               THEN /\ Raise(c)
                    /\ UNCHANGED <<lb_tree, li, mi>>
               ELSE /\ lb_tree' = _retrieve_and_add_to_tree(lb_tree, "Member", r,
                                                            pool_tree, context.details)
                    /\ IF more_members(mi, pool.members)
                       THEN /\ mi' = mi + 1
                            /\ pc' = "add_pool_members"
                            /\ li' = li
                       ELSE /\ mi' = mi
                            /\ NextListener
                    /\ UNCHANGED <<raised, exit_status>>
    /\ UNCHANGED <<mainVars, lbi, listener, pool_tree, pool, ampLocals, calls, cacheVars,
                   formatterVars,
                   printed, output>>

\* Faulty variant of print_tree: the tree is printed a second time.
print_tree_twice ==
    /\ pc = "print_tree"
    /\ printed' = Append(Append(printed, lb.id), lb.id)
    /\ pc' = "loop"
    /\ UNCHANGED <<cloud, mainVars, lbi, lb_tree, lbLocals, ampLocals, pending, calls,
                   cacheVars, formatterVars, output, raised, exit_status>>

\* display_lb_info, after the listeners: the rule and the tree are printed.
print_tree ==
    /\ pc = "print_tree"
    /\ printed' = Append(printed, lb.id)
    /\ pc' = "loop"
    /\ UNCHANGED <<cloud, mainVars, lbi, lb_tree, lbLocals, ampLocals, pending, calls,
                   cacheVars, formatterVars, output, raised, exit_status>>

\* --------------------------------------------------------- AmphoraInfo
\* load_balancer.amphorae(loadbalancer_id): amphora i of the list has id i and
\* compute_id i; the amphorae have the same image, or consecutive images
\* modulo MaxImages.
AmphoraLists ==
    {[i \in 1..n |-> [id |-> i, image_id |-> x, compute_id |-> i]] :
        n \in 0..MaxAmphorae, x \in 1..MaxImages}
    \cup {[i \in 1..n |-> [id |-> i, image_id |-> ((i + x) % MaxImages) + 1,
                            compute_id |-> i]] :
             n \in 0..MaxAmphorae, x \in 1..MaxImages}

\* find_server(id): raises, returns None, or returns the server; the servers
\* with an odd id have a flavor, the others have none.
ServerResults(id) ==
    {[tag |-> t, id |-> id, has_flavor |-> (id % 2 = 1)] :
        t \in {"error", "absent", "found"}}

\* The name of image id, the flavor name and the compute host of server id.
ImageName(id) == 100 + id
FlavorName(id) == 200 + id
ComputeHost(id) == 300 + id

\* The amphora being added.
amphora == amphoraes[ai]

\* Faulty variant of new_img_ids: the filter stops at the first id that is not
\* cached.
new_img_ids_first(image_ids, cache) ==
    LET new == SelectSeq(image_ids, LAMBDA i : i \notin DOMAIN cache)
    IN IF new = <<>> THEN <<>> ELSE <<Head(new)>>

\* Faulty variant of new_img_ids: the cache is not consulted.
new_img_ids_unfiltered(image_ids, cache) == image_ids

\* get_images_name: new_img_ids = [i for i in image_ids if i not in images_name]
new_img_ids(image_ids, cache) ==
    SelectSeq(image_ids, LAMBDA i : i \notin DOMAIN cache)

\* Faulty variant of store_images: storing the name of an id that has an entry
\* spoils the entry.
store_images_spoil(cache, images) ==
    [i \in DOMAIN cache \cup {images[k].id : k \in DOMAIN images} |->
        IF \E k \in DOMAIN images : images[k].id = i
        THEN IF i \in DOMAIN cache THEN NA
             ELSE images[CHOOSE k \in DOMAIN images : images[k].id = i].name
        ELSE cache[i]]

\* Faulty variant of store_images: the cache is rebuilt from the answer, so
\* the entries of earlier answers are dropped.
store_images_rebuilt(cache, images) ==
    [i \in {images[k].id : k \in DOMAIN images} |->
        images[CHOOSE k \in DOMAIN images : images[k].id = i].name]

\* get_images_name: images_name[image.id] = image.name for every image of the
\* answer; the other entries of the cache stay.
RECURSIVE store_images(_, _)
store_images(cache, images) ==
    IF images = <<>> THEN cache
    ELSE LET image == Head(images)
             stored == [i \in DOMAIN cache \cup {image.id} |->
                           IF i = image.id THEN image.name ELSE cache[i]]
         IN store_images(stored, Tail(images))

\* The images the image service holds: those with an odd id.
ImageExists(id) == id % 2 = 1

\* image.images(id=image_ids): the images, among those asked for, that the
\* image service holds.
RECURSIVE retrieve_images(_)
retrieve_images(image_ids) ==
    IF image_ids = <<>> THEN <<>>
    ELSE LET rest == retrieve_images(Tail(image_ids))
         IN IF ImageExists(Head(image_ids))
            THEN <<[id |-> Head(image_ids), name |-> ImageName(Head(image_ids))]>> \o rest
            ELSE rest

\* Faulty variant of cache_get: images_name.get(image_id), without default.
cache_get_no_default(cache, image_id) ==
    IF image_id \in DOMAIN cache THEN cache[image_id] ELSE None

\* Faulty variant of cache_images: an id the answer has no image for is
\* stored with the "N/A" name.
cache_images_negative(cache, new_ids) ==
    [i \in DOMAIN cache \cup Range(new_ids) |->
        IF i \in DOMAIN cache THEN cache[i]
        ELSE IF ImageExists(i) THEN ImageName(i) ELSE NA]

\* get_images_name's loop `for image in retrieve_images(new_img_ids)`: the
\* cache after the batched lookup of new_ids.
cache_images(cache, new_ids) == store_images(cache, retrieve_images(new_ids))

\* images_name.get(image_id, "N/A")
cache_get(cache, image_id) ==
    IF image_id \in DOMAIN cache THEN cache[image_id] ELSE NA


\* display_amp_info: the amphorae of the load balancer are asked for.
display_amp_info ==
    /\ pc = "display_amp_info"
    /\ Issue(Call("amphorae", lb.id, None))
    /\ pc' = "retrieve_amphoraes"
    /\ UNCHANGED <<cloud, mainVars, lbi, lb_tree, lbLocals, ampLocals, cacheVars,
                   formatterVars, printed,
                   output, raised, exit_status>>

\* display_amp_info, from the answer of the list call to the first amphora.
retrieve_amphoraes ==
    /\ pc = "retrieve_amphoraes"
    /\ LET c == Call("amphorae", lb.id, None)
       IN /\ pending' = Returned(pending, c)
          /\ \/ /\ Raise(c)
                /\ UNCHANGED ampLocals
             \/ \E amps \in AmphoraLists :
                  /\ amphoraes' = amps
                  /\ IF amps = <<>>
                     THEN /\ ai' = 0
                          /\ pc' = "print_amp_tree"
                     ELSE /\ ai' = 1
                          /\ pc' = "add_amphora_to_tree"
                  /\ UNCHANGED <<raised, exit_status>>
    /\ UNCHANGED <<cloud, mainVars, lbi, lb_tree, lbLocals, calls, cacheVars, formatterVars,
                   printed, output>>

\* add_amphora_to_tree, up to its first lookup: get_images_name([image_id])
\* asks for the ids that are not cached, in one batch; when every id is
\* cached the server lookup is issued at once.
add_amphora_to_tree ==
    /\ pc = "add_amphora_to_tree"
    /\ LET new == new_img_ids(<<amphora.image_id>>, images_name)
       IN IF new # <<>>
          THEN /\ Issue(Call("images", None, None))
               /\ image_calls' = Append(image_calls, new)
               /\ pc' = "retrieve_images"
          ELSE /\ Issue(Call("find_server", amphora.compute_id, None))
               /\ pc' = "retrieve_server"
               /\ UNCHANGED image_calls
    /\ UNCHANGED <<cloud, mainVars, lbi, lb_tree, lbLocals, ampLocals, images_name,
                   resolvers, formatterVars, printed, output, raised, exit_status>>

\* get_images_name, from the answer of the batched lookup: the images of the
\* answer are stored, and add_amphora_to_tree issues the server lookup.
retrieve_images_return ==
    /\ pc = "retrieve_images"
    /\ LET c == Call("images", None, None)
           asked == image_calls[Len(image_calls)]
       IN \/ /\ pending' = Returned(pending, c)
             /\ Raise(c)
             /\ UNCHANGED <<images_name, calls>>
          \/   /\ images_name' = cache_images(images_name, asked)
               /\ pending' = Returned(pending, c)
                                 \cup {Call("find_server", amphora.compute_id, None)}
               /\ calls' = Append(calls, Call("find_server", amphora.compute_id, None))
               /\ pc' = "retrieve_server"
               /\ UNCHANGED <<raised, exit_status>>
    /\ UNCHANGED <<cloud, mainVars, lbi, lb_tree, lbLocals, ampLocals, image_calls,
                   resolvers, formatterVars, printed, output>>

\* add_amphora_to_tree, from the answer of the server lookup: the amphora's
\* node under self.lb_tree, then the next amphora or the printing.
retrieve_server ==
    /\ pc = "retrieve_server"
    /\ LET c == Call("find_server", amphora.compute_id, None)
       IN /\ pending' = Returned(pending, c)
          /\ \E r \in Answers(c, ServerResults(c.id)) :
             /\ cloud' = Answered(c, r)
             /\ IF r.tag = "error"
               THEN /\ Raise(c)
                    /\ UNCHANGED <<lb_tree, ai>>
               ELSE LET server_id == IF r.tag = "found" THEN r.id ELSE NA
                        server_flavor_name ==
                            IF r.tag = "found" /\ r.has_flavor THEN FlavorName(r.id)
                            ELSE NA
                        server_compute_host ==
                            IF r.tag = "found" THEN ComputeHost(r.id) ELSE NA
                        t == add_to_tree(lb_tree, 1,
                                 Formatted("amphora", amphora.id,
                                           <<cache_get(images_name, amphora.image_id),
                                             server_id, server_flavor_name,
                                             server_compute_host>>))
                    IN /\ lb_tree' = IF context.details
                                     THEN _add_all_attr_to_tree(t, "amphora", Len(t))
                                     ELSE t
                       /\ IF ai < Len(amphoraes)
                          THEN /\ ai' = ai + 1
                               /\ pc' = "add_amphora_to_tree"
                          ELSE /\ ai' = ai
                               /\ pc' = "print_amp_tree"
                       /\ UNCHANGED <<raised, exit_status>>
    /\ UNCHANGED <<mainVars, lbi, lbLocals, amphoraes, calls, cacheVars, formatterVars,
                   printed, output>>

\* display_amp_info, after the amphorae: the rule and the tree are printed.
print_amp_tree ==
    /\ pc = "print_amp_tree"
    /\ printed' = Append(printed, lb.id)
    /\ pc' = "loop"
    /\ UNCHANGED <<cloud, mainVars, lbi, lb_tree, lbLocals, ampLocals, pending, calls,
                   cacheVars, formatterVars, output, raised, exit_status>>

\* ------------------------------------------------------- specification
Next ==
    \/ parse_parameters
    \/ main
    \/ main_loop
    \/ display_lb_info
    \/ add_listener_info
    \/ retrieve_listener
    \/ add_pool_info
    \/ retrieve_pool
    \/ add_health_monitor_info
    \/ retrieve_health_monitor
    \/ add_pool_members
    \/ retrieve_member
    \/ print_tree
    \/ display_amp_info
    \/ retrieve_amphoraes
    \/ add_amphora_to_tree
    \/ retrieve_images_return
    \/ retrieve_server
    \/ print_amp_tree

Spec == Init /\ [][Next]_vars

\* ------------------------------------- get_images_name, called side by side
\* get_images_name reads and writes the class attribute images_name without a
\* lock. Here it is called by several callers at once, each with a list of
\* image ids, on a cache that earlier calls may have filled; a caller is
\* between two of its steps whenever another caller takes one.
Callers == {1, 2}

\* The lists of image ids a caller may ask for.
IdLists == UNION {[1..n -> 1..MaxImages] : n \in 0..MaxIds}

\* The variables of main and of the builders.
programVars == <<pc, argv, args, context, filtered_lbs, lbi, lb_tree, li, listener, pool_tree,
                 pool, mi, amphoraes, ai, cloud, pending, calls, printed, output, raised,
                 exit_status, formatterVars>>

\* A caller at the call of get_images_name(image_ids): `seen` is the cache as
\* the caller's filter read it, `new` its new_img_ids, `images` the images of
\* the answer that its loop has not stored yet.
Resolver(image_ids) ==
    [pc |-> "call", image_ids |-> image_ids, seen |-> <<>>, new |-> <<>>, images |-> <<>>]

ResolveInit ==
    /\ pc = "resolve"
    /\ argv = NoOption
    /\ args = NoArgs
    /\ context = NoContext
    /\ filtered_lbs = <<>>
    /\ lbi = 0
    /\ lb_tree = <<>>
    /\ li = 0
    /\ listener = NoListener
    /\ pool_tree = 0
    /\ pool = NoPool
    /\ mi = 0
    /\ amphoraes = <<>>
    /\ ai = 0
    /\ cloud = <<>>
    /\ pending = {}
    /\ calls = <<>>
    /\ images_name \in {cache_images(<<>>, ids) : ids \in IdLists}
    /\ image_calls = <<>>
    /\ resolvers \in [Callers -> {Resolver(ids) : ids \in IdLists}]
    /\ printed = <<>>
    /\ output = <<>>
    /\ raised = NoCall
    /\ exit_status = Running
    /\ FormatterIdle

\* get_images_name, the filter: new_img_ids, and `if new_img_ids`.
get_images_name_filter(t) ==
    /\ pc = "resolve"
    /\ resolvers[t].pc = "call"
    /\ LET new == new_img_ids(resolvers[t].image_ids, images_name)
       IN resolvers' = [resolvers EXCEPT
                           ![t].seen = images_name,
                           ![t].new = new,
                           ![t].pc = IF new = <<>> THEN "done" ELSE "lookup"]
    /\ UNCHANGED <<programVars, images_name, image_calls>>

\* get_images_name, the batched lookup: it raises, or returns the images.
get_images_name_lookup(t) ==
    /\ pc = "resolve"
    /\ resolvers[t].pc = "lookup"
    /\ image_calls' = Append(image_calls, resolvers[t].new)
    /\ \/ resolvers' = [resolvers EXCEPT ![t].pc = "raised"]
       \/ LET images == retrieve_images(resolvers[t].new)
          IN resolvers' = [resolvers EXCEPT
                              ![t].images = images,
                              ![t].pc = IF images = <<>> THEN "done" ELSE "store"]
    /\ UNCHANGED <<programVars, images_name>>

\* get_images_name, one turn of the loop: images_name[image.id] = image.name.
get_images_name_store(t) ==
    /\ pc = "resolve"
    /\ resolvers[t].pc = "store"
    /\ images_name' = store_images(images_name, <<Head(resolvers[t].images)>>)
    /\ resolvers' = [resolvers EXCEPT
                        ![t].images = Tail(@),
                        ![t].pc = IF Tail(resolvers[t].images) = <<>> THEN "done"
                                  ELSE "store"]
    /\ UNCHANGED <<programVars, image_calls>>

ResolveNext ==
    \E t \in Callers :
        \/ get_images_name_filter(t)
        \/ get_images_name_lookup(t)
        \/ get_images_name_store(t)

ResolveSpec == ResolveInit /\ [][ResolveNext]_vars

\* ------------------------------------------- the formatters' pure methods
\* format_status and track_progress of the three formatters, applied to a
\* status string and to a sequence of items.
Formatters == {"rich", "plain", "json"}

\* Status strings: the three that have a colour, and others.
Statuses == {"ACTIVE", "ONLINE", "PENDING", "ERROR", "OFFLINE", "active", ""}

\* The sequences track_progress may be given.
Sequences == UNION {[1..n -> 1..MaxMembers] : n \in 0..MaxMembers}

\* RichOutputFormatter.format_status's status_colors.
status_colors == ("ACTIVE" :> "green") @@ ("ONLINE" :> "green") @@ ("PENDING" :> "yellow")

\* Faulty variant of status_colors_get: the lookup ignores the case of the key.
status_colors_get_nocase(key, default) ==
    IF key \in DOMAIN status_colors THEN status_colors[key]
    ELSE IF key = "active" THEN "green" ELSE default

\* status_colors.get(key, default)
status_colors_get(key, default) ==
    IF key \in DOMAIN status_colors THEN status_colors[key] ELSE default

\* The f-string "[{color}]{status}[/{color}]", as its pieces.
Markup(color, text) == <<"[", color, "]", text, "[/", color, "]">>

\* format_status(status) of formatter f; the plain and the JSON formatter
\* return the status.
format_status(f, text) ==
    IF f = "rich" THEN Markup(status_colors_get(text, "red"), text) ELSE <<text>>

\* track_progress(sequence, description) of formatter f: the rich formatter
\* returns a generator over the sequence that advances the progress bar's
\* task at every item; the plain and the JSON formatter return the sequence.
track_progress(f, items) == [called |-> TRUE, items |-> items, advance |-> f = "rich"]

FormatInit ==
    /\ pc = "format"
    /\ argv = NoOption
    /\ args = NoArgs
    /\ context = NoContext
    /\ filtered_lbs = <<>>
    /\ lbi = 0
    /\ lb_tree = <<>>
    /\ li = 0
    /\ listener = NoListener
    /\ pool_tree = 0
    /\ pool = NoPool
    /\ mi = 0
    /\ amphoraes = <<>>
    /\ ai = 0
    /\ cloud = <<>>
    /\ pending = {}
    /\ calls = <<>>
    /\ images_name = <<>>
    /\ image_calls = <<>>
    /\ resolvers = <<>>
    /\ printed = <<>>
    /\ output = <<>>
    /\ raised = NoCall
    /\ exit_status = Running
    /\ formatter \in Formatters
    /\ status_text \in Statuses
    /\ styled = <<>>
    /\ sequence \in Sequences
    /\ tracked = NotTracked
    /\ progress_bar = 0
    /\ yielded = <<>>

otherVars == <<pc, argv, args, context, filtered_lbs, lbi, lb_tree, li, listener, pool_tree, pool,
               mi, amphoraes, ai, cloud, pending, calls, printed, output, raised,
               exit_status, cacheVars>>

\* A call of format_status(status).
format_status_call ==
    /\ pc = "format"
    /\ styled = <<>>
    /\ styled' = format_status(formatter, status_text)
    /\ UNCHANGED <<otherVars, formatter, status_text, sequence, tracked, progress_bar,
                   yielded>>

\* A call of track_progress(sequence, description).
track_progress_call ==
    /\ pc = "format"
    /\ ~tracked.called
    /\ tracked' = track_progress(formatter, sequence)
    /\ UNCHANGED <<otherVars, formatter, status_text, styled, sequence, progress_bar,
                   yielded>>

\* The caller's `for item in ...` takes the next item of the iterable: the
\* rich formatter's generator runs progress_bar.update(task_id, advance=1)
\* and yields the item.
track_progress_next ==
    /\ pc = "format"
    /\ tracked.called
    /\ tracked.items # <<>>
    /\ yielded' = Append(yielded, Head(tracked.items))
    /\ tracked' = [tracked EXCEPT !.items = Tail(@)]
    /\ progress_bar' = IF tracked.advance THEN progress_bar + 1 ELSE progress_bar
    /\ UNCHANGED <<otherVars, formatter, status_text, styled, sequence>>

FormatNext ==
    \/ format_status_call
    \/ track_progress_call
    \/ track_progress_next

FormatSpec == FormatInit /\ [][FormatNext]_vars

\* ---------------------------------------------------------- properties
\* The children list of node n of tree t, without the attribute lines of
\* detailed mode.
Children(t, n) == {i \in DOMAIN t : t[i].parent = n /\ t[i].kind # "attr"}

\* Node `node` is the "<label>: None" node.
IsNone(node, label) == node.kind = "none" /\ node.label = label

\* The member lookups in flight.
MemberFetches == {c \in pending : c.op = "find_member"}

\* Control is inside add_pool_members.
InAddPoolMembers == pc \in {"add_pool_members", "retrieve_member"}

\* The tree of the current load balancer is complete: display_lb_info is at
\* its printing, or has returned.
Displayed == args.type = "lb" /\ lbi >= 1 /\ pc \in {"print_tree", "loop", "exit"}

\* The last index of sequence q whose element satisfies Test, or 0.
LastWhere(q, Test(_)) ==
    IF \E i \in DOMAIN q : Test(q[i])
    THEN CHOOSE i \in DOMAIN q : Test(q[i]) /\ \A j \in DOMAIN q : j > i => ~Test(q[j])
    ELSE 0

\* The member lookups issued for the pool add_pool_info looked up last, and
\* the Member nodes added after that pool's node.
MemberCallsOfPool ==
    LET at == LastWhere(calls, LAMBDA c : c.op = "find_pool")
    IN {i \in DOMAIN calls : i > at /\ calls[i].op = "find_member"}
MemberNodesOfPool ==
    LET at == LastWhere(lb_tree, LAMBDA n : n.label = "Pool" /\ n.kind = "resource")
    IN {i \in DOMAIN lb_tree : i > at /\ lb_tree[i].label = "Member"}

\* C1: a member lookup that raises is caught inside add_pool_members: the
\* error does not propagate, and the member is shown by a node that carries
\* its id.
C1_MemberFaultIsolated ==
    /\ raised.op # "find_member"
    /\ \A c \in DOMAIN cloud :
         (c.op = "find_member" /\ cloud[c].tag = "error") =>
            \E i \in DOMAIN lb_tree :
                lb_tree[i].label = "Member" /\ lb_tree[i].rid = c.id

\* C2: inside add_pool_members on a pool with N member references and
\* max_workers = W, at most min(W, N) member lookups are in flight, and W is
\* between 1 and MAX_WORKERS_LIMIT.
C2_MemberFetchesBounded ==
    /\ context # NoContext => context.max_workers \in 1..MAX_WORKERS_LIMIT
    /\ InAddPoolMembers =>
          Cardinality(MemberFetches) <= Min(context.max_workers, Len(pool.members))

\* C2's case: the second of several member lookups is in flight with
\* max_workers = 1.
C2_Witness ==
    /\ pc = "retrieve_member"
    /\ context.max_workers = 1
    /\ Len(pool.members) >= 2
    /\ mi = 2
    /\ Cardinality(MemberFetches) = 1

\* C3: the step by which add_pool_members returns leaves no member lookup in
\* flight, with one lookup issued and one node attached for every member
\* reference; outside add_pool_members, and so once the tree is printed, no
\* member lookup is in flight.
C3_MembersDrained ==
    /\ [](~InAddPoolMembers => MemberFetches = {})
    /\ [][(pc = "retrieve_member" /\ pc' \notin {"add_pool_members", "crashed"}) =>
             /\ MemberFetches' = {}
             /\ Cardinality(MemberCallsOfPool') = Len(pool.members)
             /\ Cardinality(MemberNodesOfPool') = Len(pool.members)]_vars

\* C3's case: the tree of a load balancer whose pool has several members was
\* printed.
C3_Witness ==
    /\ pc = "loop"
    /\ Len(printed) = lbi
    /\ pool.tag = "found"
    /\ Len(pool.members) >= 2
    /\ Cardinality(MemberNodesOfPool) = Len(pool.members)
    /\ MemberFetches = {}

\* C4: for a load balancer without listeners the root of the printed tree has
\* exactly one child, the "Listener: None" node, and the builder issues no
\* lookup at all.
C4_NoListeners ==
    (args.type = "lb" /\ lbi >= 1 /\ lb.listeners = <<>>) =>
        /\ calls = <<>>
        /\ pending = {}
        /\ Displayed =>
              \E i \in DOMAIN lb_tree :
                  /\ Children(lb_tree, 1) = {i}
                  /\ IsNone(lb_tree[i], "Listener")

\* C4's case: the tree of a load balancer without listeners was printed, in
\* detailed mode.
C4_Witness ==
    /\ Displayed
    /\ pc = "loop"
    /\ Len(printed) = lbi
    /\ lb.listeners = <<>>
    /\ context.details

\* C5: a listener that was found and has no default pool has, as the only
\* child of its own node, the "Pool: None" node.
C5_PoolNoneUnderListener ==
    \A c \in DOMAIN cloud :
        (c.op = "find_listener" /\ cloud[c].tag = "found"
            /\ cloud[c].default_pool_id = None) =>
           \E i \in DOMAIN lb_tree :
               /\ lb_tree[i].label = "Listener"
               /\ lb_tree[i].rid = c.id
               /\ \E j \in DOMAIN lb_tree :
                      /\ Children(lb_tree, i) = {j}
                      /\ IsNone(lb_tree[j], "Pool")

\* C6: the tree is nested as the resources are: a listener is a child of the
\* root, a pool that was found is a child of its listener, a health monitor
\* and the members are children of their pool.
C6_Nesting ==
    args.type = "lb" =>
        \A i \in DOMAIN lb_tree :
            LET n == lb_tree[i]
            IN /\ n.label = "Listener" => n.parent = 1
               /\ (n.label = "Pool" /\ n.kind = "resource") =>
                     /\ lb_tree[n.parent].label = "Listener"
                     /\ lb_tree[n.parent].kind = "resource"
               /\ n.label \in {"Health Monitor", "Member"} =>
                     /\ lb_tree[n.parent].label = "Pool"
                     /\ lb_tree[n.parent].kind = "resource"

\* The nodes added after node i by the add_pool_info call that added node i:
\* those up to the next listener's node.
After(i) ==
    {j \in DOMAIN lb_tree :
        j > i /\ \A k \in (i + 1)..j : lb_tree[k].label # "Listener"}

\* The nodes of the pools that were found.
PoolNodes == {i \in DOMAIN lb_tree : lb_tree[i].label = "Pool" /\ lb_tree[i].kind = "resource"}

\* The health monitor lookup of pool p returned None.
HealthMonitorAbsent(p) ==
    LET c == Call("find_health_monitor", p.health_monitor_id, None)
    IN p.health_monitor_id # None /\ c \in DOMAIN cloud /\ cloud[c].tag = "absent"

\* C7: when the health monitor lookup of a pool that was found returns None,
\* no error is raised by it, the "Health Monitor: None" node is the one
\* health monitor node that follows the pool's node, and the tree is completed
\* with the pool's member nodes (one for every member reference, or the
\* "Member: None" node of a pool without members).
C7_AbsentHealthMonitor ==
    \A i \in PoolNodes :
        LET p == cloud[Call("find_pool", lb_tree[i].rid, None)]
            hms == {j \in After(i) : lb_tree[j].label = "Health Monitor"}
            members == {j \in After(i) : lb_tree[j].label = "Member"}
            looking == /\ i = LastWhere(lb_tree, LAMBDA n : n.label = "Pool")
                       /\ pc \in {"add_health_monitor_info", "retrieve_health_monitor"}
        IN (HealthMonitorAbsent(p) /\ ~looking) =>
              /\ raised.op # "find_health_monitor"
              /\ \E j \in hms : hms = {j} /\ IsNone(lb_tree[j], "Health Monitor")
              /\ Displayed =>
                    Cardinality(members) =
                        IF p.members = <<>> THEN 1 ELSE Len(p.members)

\* C7's case: the tree of a load balancer was printed whose pool has members
\* and a health monitor reference that was not found.
C7_Witness ==
    /\ Displayed
    /\ pc = "loop"
    /\ Len(printed) = lbi
    /\ pool.tag = "found"
    /\ HealthMonitorAbsent(pool)
    /\ pool.members # <<>>
    /\ \E j \in DOMAIN lb_tree : IsNone(lb_tree[j], "Health Monitor")

\* C8: a member whose lookup returned None is shown by a "Member" node of the
\* not-found shape that carries the member's id.
C8_AbsentMemberIdentified ==
    \A c \in DOMAIN cloud :
        (c.op = "find_member" /\ cloud[c].tag = "absent") =>
           \E i \in DOMAIN lb_tree :
               /\ lb_tree[i].label = "Member"
               /\ lb_tree[i].kind = "none"
               /\ lb_tree[i].rid = c.id

\* The batched image lookups of the run that asked for image id.
LookupsOf(id) ==
    {k \in DOMAIN image_calls : \E j \in DOMAIN image_calls[k] : image_calls[k][j] = id}

\* C9, as stated: whatever the image id, at most one batched lookup of the run
\* contains it, however often and by whichever AmphoraInfo it is resolved.
C9_OneLookupPerImage ==
    \A id \in 1..MaxImages : Cardinality(LookupsOf(id)) <= 1

\* C9, amended: at most one batched lookup of the run contains an image id
\* that the image service holds; an id in the cache is in exactly one.
C9_OneLookupPerKnownImage ==
    /\ \A id \in 1..MaxImages : ImageExists(id) => Cardinality(LookupsOf(id)) <= 1
    /\ \A id \in DOMAIN images_name : Cardinality(LookupsOf(id)) = 1

\* C9's case: the AmphoraInfo of a second load balancer has resolved an image
\* that the AmphoraInfo of the first one had resolved.
C9_Witness ==
    /\ args.type = "amphora"
    /\ lbi = 2
    /\ Len(printed) = 1
    /\ pc = "retrieve_server"
    /\ amphora.image_id \in DOMAIN images_name
    /\ Cardinality(LookupsOf(amphora.image_id)) = 1
    /\ Len(image_calls) = 1

\* C10: no step removes a key of the image-name cache or changes the name
\* stored for a key.
C10_CacheMonotone ==
    [][\A k \in DOMAIN images_name :
           k \in DOMAIN images_name' /\ images_name'[k] = images_name[k]]_vars

\* C10's case: a batched lookup has returned after the one that stored the
\* name of an image, and that name is still in the cache.
C10_Witness ==
    /\ Len(image_calls) >= 2
    /\ pc = "retrieve_server"
    /\ \E k \in DOMAIN images_name :
          /\ k = image_calls[1][1]
          /\ images_name[k] = ImageName(k)

\* The attribute lines attached to node i of the tree.
AttrsOf(i) == {j \in DOMAIN lb_tree : lb_tree[j].parent = i /\ lb_tree[j].kind = "attr"}

\* C11: in detailed mode the attribute lines of every resource node are in
\* ascending key order, one for every key of the resource's to_dict() and no
\* other; without details no node has an attribute line.
C11_DetailsSorted ==
    \A i \in DOMAIN lb_tree :
        IF context.details /\ lb_tree[i].kind = "resource"
        THEN /\ {lb_tree[j].rid : j \in AttrsOf(i)} = Range(to_dict(lb_tree[i].label))
             /\ Cardinality(AttrsOf(i)) = Len(to_dict(lb_tree[i].label))
             /\ \A j, k \in AttrsOf(i) : j < k => lb_tree[j].rid < lb_tree[k].rid
        ELSE AttrsOf(i) = {}

\* C11's case: a tree was printed in detailed mode that has the nodes of a
\* listener, a pool, a health monitor and a member that were found.
C11_Witness ==
    /\ Displayed
    /\ context.details
    /\ Len(printed) = lbi
    /\ \A l \in {"Listener", "Pool", "Health Monitor", "Member"} :
          \E i \in DOMAIN lb_tree :
              /\ lb_tree[i].label = l
              /\ lb_tree[i].kind = "resource"
              /\ AttrsOf(i) # {}

\* The nodes of the tree with label l.
Labelled(l) == {i \in DOMAIN lb_tree : lb_tree[i].label = l}

\* The tree of the current load balancer has a node for everything the
\* builder was given: every listener reference (or the one "Listener: None"
\* node), or every amphora, and no lookup is in flight.
TreeComplete ==
    /\ pending = {}
    /\ IF args.type = "lb"
       THEN Cardinality(Labelled("Listener")) =
               IF lb.listeners = <<>> THEN 1 ELSE Len(lb.listeners)
       ELSE Cardinality(Labelled("amphora")) = Len(amphoraes)

\* C12: the tree of every load balancer that was processed is printed exactly
\* once, in the order of processing, when it is complete, and no node is
\* attached to a tree that was printed.
C12_PrintedOnce ==
    /\ [](/\ Len(printed) <= lbi
          /\ \A k \in DOMAIN printed : printed[k] = filtered_lbs[k].id
          /\ pc = "loop" => Len(printed) = lbi
          /\ (pc = "exit" /\ exit_status = 0 /\ filtered_lbs # <<>>) =>
                Len(printed) = Len(filtered_lbs))
    /\ [][/\ printed' # printed =>
                /\ printed' = Append(printed, lb.id)
                /\ lb_tree' = lb_tree
                /\ TreeComplete
          /\ (lbi >= 1 /\ Len(printed) = lbi /\ lbi' = lbi) => lb_tree' = lb_tree]_vars

\* C12's case: the run ended after the trees of several load balancers were
\* printed.
C12_Witness ==
    /\ pc = "exit"
    /\ exit_status = 0
    /\ Len(filtered_lbs) >= 2
    /\ Len(printed) = Len(filtered_lbs)

\* The lookups of the OpenStack API that the builders use: all of them read.
ReadOps == {"find_listener", "find_pool", "find_health_monitor", "find_member",
            "amphorae", "find_server", "images"}

\* The number of lookups the current builder has issued that satisfy Test.
Issued(Test(_)) == Cardinality({i \in DOMAIN calls : Test(calls[i])})

\* C13: the builders only issue find and list lookups; a lookup is issued once
\* for every reference met and never again (one lookup per listener
\* reference, at most one pool lookup per listener, one health monitor lookup
\* and one lookup of each member per pool lookup, one list of amphorae, one
\* server lookup and at most one image lookup per amphora), and a lookup that
\* raised is not retried.
C13_ReadOnly ==
    /\ \A i \in DOMAIN calls : calls[i].op \in ReadOps
    /\ pending \subseteq Range(calls)
    /\ \A id \in 1..MaxListeners :
          Issued(LAMBDA c : c.op = "find_listener" /\ c.id = id) <= 1
    /\ Issued(LAMBDA c : c.op = "find_pool") <= Issued(LAMBDA c : c.op = "find_listener")
    /\ Issued(LAMBDA c : c.op = "find_health_monitor") <= Issued(LAMBDA c : c.op = "find_pool")
    /\ \A id \in 1..MaxMembers :
          Issued(LAMBDA c : c.op = "find_member" /\ c.id = id)
              <= Issued(LAMBDA c : c.op = "find_pool")
    /\ Issued(LAMBDA c : c.op = "amphorae") <= 1
    /\ \A id \in 1..MaxAmphorae :
          Issued(LAMBDA c : c.op = "find_server" /\ c.id = id) <= 1
    /\ Issued(LAMBDA c : c.op = "images") <= ai
    /\ raised # NoCall => (pc = "crashed" /\ pending = {})

\* C13's case: the tree was printed of a load balancer whose two listeners
\* refer to the same pool, which has members: the pool and its members were
\* looked up once for each of the two references.
C13_Witness ==
    /\ Displayed
    /\ Len(printed) = lbi
    /\ Issued(LAMBDA c : c.op = "find_pool") = 2
    /\ Issued(LAMBDA c : c.op = "find_member") >= 2
    /\ raised = NoCall

\* The lookups of the current builder that have returned None.
AbsentCalls(op) == {c \in DOMAIN cloud : c.op = op /\ cloud[c].tag = "absent"}

\* C14: a listener whose lookup returns None gets the one "Listener: None"
\* node under the root and nothing else: no node follows it before the next
\* listener's, the lookup that follows its own is the next listener's, no
\* error is raised by it, and the remaining listeners get their nodes.
C14_AbsentListener ==
    LET nones == {i \in Labelled("Listener") : lb_tree[i].kind = "none"}
    IN (args.type = "lb" /\ lbi >= 1 /\ lb.listeners # <<>>) =>
         /\ Cardinality(nones) = Cardinality(AbsentCalls("find_listener"))
         /\ \A i \in nones : lb_tree[i].parent = 1 /\ After(i) = {}
         /\ \A k \in DOMAIN calls :
               (calls[k] \in AbsentCalls("find_listener") /\ k < Len(calls)) =>
                   calls[k + 1].op = "find_listener"
         /\ \A c \in AbsentCalls("find_listener") : raised # c
         /\ Displayed => Cardinality(Labelled("Listener")) = Len(lb.listeners)

\* C14's case: the tree was printed of a load balancer whose first listener
\* was not found and whose second listener was found.
C14_Witness ==
    /\ Displayed
    /\ Len(printed) = lbi
    /\ Len(lb.listeners) >= 2
    /\ Call("find_listener", lb.listeners[1], None) \in AbsentCalls("find_listener")
    /\ \E i \in Labelled("Listener") : lb_tree[i].kind = "resource"

\* C15: a pool whose lookup returns None gets the one "Pool: None" node under
\* the parent add_pool_info was given and nothing else: there is one such node
\* for every pool lookup that returned and for every listener without default
\* pool, no node follows it before the next listener's, no health monitor and
\* no member is looked up, and no error is raised by it.
C15_AbsentPool ==
    LET nones == {i \in Labelled("Pool") : lb_tree[i].kind = "none"}
        returned == Issued(LAMBDA c : c.op = "find_pool")
                       - (IF pc = "retrieve_pool" THEN 1 ELSE 0)
        nopool == {c \in DOMAIN cloud :
                      /\ c.op = "find_listener"
                      /\ cloud[c].tag = "found"
                      /\ cloud[c].default_pool_id = None}
    IN (args.type = "lb" /\ AbsentCalls("find_pool") # {}) =>
         /\ Cardinality(nones) = returned + Cardinality(nopool)
         /\ \A i \in nones : lb_tree[i].parent = pool_tree /\ After(i) = {}
         /\ Issued(LAMBDA c : c.op \in {"find_health_monitor", "find_member"}) = 0
         /\ \A c \in AbsentCalls("find_pool") : raised # c

\* C15's case: the tree was printed of a load balancer with a listener whose
\* default pool was not found.
C15_Witness ==
    /\ Displayed
    /\ Len(printed) = lbi
    /\ AbsentCalls("find_pool") # {}
    /\ \E i \in Labelled("Pool") : lb_tree[i].kind = "none"
    /\ raised = NoCall

\* The number of amphorae of the current load balancer that
\* add_amphora_to_tree has returned for.
AmphoraeAdded ==
    IF ai >= 1 /\ pc \in {"add_amphora_to_tree", "retrieve_images", "retrieve_server",
                          "crashed"}
    THEN ai - 1
    ELSE ai

\* C16: every amphora that add_amphora_to_tree has returned for has exactly one
\* node; the node shows "N/A" for the server id, the flavor name and the
\* compute host when the server was not found, "N/A" for the flavor name alone
\* when the server has no flavor, and "N/A" for the image name when the image
\* id is not in the cache; a server that is not found raises no error.
C16_AmphoraNode ==
    (args.type = "amphora" /\ lbi >= 1) =>
        /\ Cardinality(Labelled("amphora")) = AmphoraeAdded
        /\ \A k \in 1..AmphoraeAdded :
              LET a == amphoraes[k]
                  c == Call("find_server", a.compute_id, None)
                  server == cloud[c]
              IN /\ server.tag = "absent" => raised # c
                 /\ \E i \in Labelled("amphora") :
                       /\ lb_tree[i].rid = a.id
                       /\ lb_tree[i].parent = 1
                       /\ lb_tree[i].info[1] =
                             IF a.image_id \in DOMAIN images_name
                             THEN ImageName(a.image_id) ELSE NA
                       /\ lb_tree[i].info[2] =
                             IF server.tag = "found" THEN server.id ELSE NA
                       /\ lb_tree[i].info[3] =
                             IF server.tag = "found" /\ server.has_flavor
                             THEN FlavorName(server.id) ELSE NA
                       /\ lb_tree[i].info[4] =
                             IF server.tag = "found" THEN ComputeHost(server.id) ELSE NA

\* C16's case: a tree was printed with the node of an amphora whose server and
\* image were not found and the node of an amphora whose server has no flavor.
C16_Witness ==
    /\ args.type = "amphora"
    /\ pc = "loop"
    /\ Len(printed) = lbi
    /\ \E i \in Labelled("amphora") : lb_tree[i].info = <<NA, NA, NA, NA>>
    /\ \E i \in Labelled("amphora") :
          lb_tree[i].info[2] # NA /\ lb_tree[i].info[3] = NA /\ lb_tree[i].info[4] # NA

\* The amphorae of the current load balancer, up to the one being added, whose
\* image get_images_name has been called for.
Resolving == IF ai >= 1 /\ pc = "add_amphora_to_tree" THEN ai - 1 ELSE ai

\* C17: the cache has no entry for an id that a lookup returned no image for
\* (every entry is the name of an image the service holds), and every call of
\* get_images_name for such an id issues a lookup again.
C17_NoNegativeCaching ==
    /\ \A id \in DOMAIN images_name : ImageExists(id) /\ images_name[id] = ImageName(id)
    /\ (args.type = "amphora" /\ lbi >= 1) =>
          Issued(LAMBDA c : c.op = "images") >=
              Cardinality({k \in 1..Resolving : ~ImageExists(amphoraes[k].image_id)})

\* C17's case: two amphorae have the same image, which the service does not
\* hold, and the second lookup of it has returned.
C17_Witness ==
    /\ pc = "retrieve_server"
    /\ ai = 2
    /\ amphoraes[1].image_id = amphoraes[2].image_id
    /\ ~ImageExists(amphoraes[2].image_id)
    /\ Len(image_calls) >= 2
    /\ image_calls[Len(image_calls)] = <<amphoraes[2].image_id>>
    /\ image_calls[Len(image_calls) - 1] = <<amphoraes[2].image_id>>
    /\ amphoraes[2].image_id \notin DOMAIN images_name

\* Caller t of get_images_name runs alone: the other callers ask for nothing.
Alone(t) == \A u \in Callers \ {t} : resolvers[u].image_ids = <<>>

\* The ids of a request that had no entry in the cache the caller read.
Uncached(r) == SelectSeq(r.image_ids, LAMBDA i : i \notin DOMAIN r.seen)

\* C18: a call of get_images_name(image_ids) issues no lookup when every id
\* asked for is cached; otherwise it issues exactly one lookup, whose argument
\* is exactly the ids asked for that are not cached. When it returns, every
\* image the lookup returned has its entry, and every other id is as it was:
\* an entry that was there is unchanged and no other entry has appeared.
C18_Resolve ==
    resolvers # <<>> =>
        \A t \in Callers :
            LET r == resolvers[t]
            IN /\ r.pc # "call" => r.new = Uncached(r)
               /\ Alone(t) =>
                    /\ r.pc \in {"call", "lookup"} => image_calls = <<>>
                    /\ r.pc \in {"store", "raised"} => image_calls = <<Uncached(r)>>
                    /\ r.pc = "done" =>
                          image_calls = IF Uncached(r) = <<>> THEN <<>> ELSE <<Uncached(r)>>
                    /\ r.pc # "call" =>
                          \A id \in DOMAIN r.seen :
                              id \in DOMAIN images_name /\ images_name[id] = r.seen[id]
                    /\ r.pc = "done" =>
                          \A id \in 1..MaxImages :
                              id \notin DOMAIN r.seen =>
                                  IF id \in Range(r.image_ids) /\ ImageExists(id)
                                  THEN id \in DOMAIN images_name
                                       /\ images_name[id] = ImageName(id)
                                  ELSE id \notin DOMAIN images_name

\* C18's case: a caller running alone asked for two ids, neither of them
\* cached, its one lookup asked for both and it has stored what was returned.
C18_Witness ==
    /\ resolvers # <<>>
    /\ \E t \in Callers :
          /\ Alone(t)
          /\ resolvers[t].pc = "done"
          /\ Len(resolvers[t].image_ids) = 2
          /\ resolvers[t].image_ids[1] # resolvers[t].image_ids[2]
          /\ image_calls = <<resolvers[t].image_ids>>
          /\ images_name # resolvers[t].seen

\* Some step of a caller of get_images_name removes or changes no entry.
EntriesKept ==
    \A id \in DOMAIN images_name :
        id \in DOMAIN images_name' /\ images_name'[id] = images_name[id]

\* C19: however the steps of two callers of get_images_name interleave, every
\* entry of the cache is the name of its image, there is one entry per id, no
\* step removes or changes an entry, an id is looked up at most once per
\* caller, and a caller that has returned finds every image it asked for, and
\* that the service holds, in the cache.
C19_ConcurrentResolve ==
    /\ [](resolvers # <<>> =>
            /\ \A id \in DOMAIN images_name :
                  ImageExists(id) /\ images_name[id] = ImageName(id)
            /\ \A id \in 1..MaxImages :
                  Cardinality(LookupsOf(id)) <= Cardinality(Callers)
            /\ \A t \in Callers :
                  resolvers[t].pc = "done" =>
                      \A id \in Range(resolvers[t].image_ids) :
                          ImageExists(id) => id \in DOMAIN images_name)
    /\ [][EntriesKept]_vars

\* C19's case: two callers asked for the same id, which was not cached, both
\* looked it up, and both have stored the name the service returned.
C19_Witness ==
    /\ resolvers # <<>>
    /\ \E id \in 1..MaxImages :
          /\ \A t \in Callers :
                /\ resolvers[t].pc = "done"
                /\ id \in Range(resolvers[t].new)
          /\ Cardinality(LookupsOf(id)) = 2
          /\ id \in DOMAIN images_name
          /\ images_name[id] = ImageName(id)

\* The positions in `calls` of the listener lookups of the current load
\* balancer, in the order of issue, and the position past the last call.
ListenerCallsAt ==
    SelectSeq([i \in 1..Len(calls) |-> i], LAMBDA i : calls[i].op = "find_listener")
    \o <<Len(calls) + 1>>

\* The positions in the tree of the Listener nodes, in the order of
\* attachment, and the position past the tree.
ListenerNodesAt ==
    SelectSeq([i \in 1..Len(lb_tree) |-> i], LAMBDA i : lb_tree[i].label = "Listener")
    \o <<Len(lb_tree) + 1>>

\* The lookups that the answers so far call for below the listener with this
\* id: its pool, the pool's health monitor, the pool's members in their order.
Descent(id) ==
    LET lc == Call("find_listener", id, None)
    IN IF lc \notin DOMAIN cloud \/ cloud[lc].tag # "found"
          \/ cloud[lc].default_pool_id = None
       THEN <<>>
       ELSE LET pcall == Call("find_pool", cloud[lc].default_pool_id, None)
            IN IF pcall \notin DOMAIN cloud \/ cloud[pcall].tag # "found"
               THEN <<pcall>>
               ELSE LET p == cloud[pcall]
                        hm == IF p.health_monitor_id = None THEN <<>>
                              ELSE <<Call("find_health_monitor", p.health_monitor_id, None)>>
                    IN <<pcall>> \o hm
                       \o [k \in 1..Len(p.members) |->
                              Call("find_member", p.members[k], p.id)]

\* The number of nodes that follow the node of the listener with this id once
\* add_listener_info has returned: none for a listener that was not found, a
\* Pool node, and for a pool that was found a Health Monitor node and a Member
\* node per member (one "Member: None" node for a pool without members).
Attachments(id) ==
    LET lc == Call("find_listener", id, None)
    IN IF cloud[lc].tag # "found" THEN 0
       ELSE IF cloud[lc].default_pool_id = None THEN 1
       ELSE LET p == cloud[Call("find_pool", cloud[lc].default_pool_id, None)]
            IN IF p.tag # "found" THEN 1
               ELSE 2 + (IF p.members = <<>> THEN 1 ELSE Len(p.members))

\* C20: the listeners are looked up once each in the order of lb.listeners,
\* one lookup at a time; when the lookup of listener k+1 is issued, every
\* lookup below listener k has been issued, in depth-first order, and every
\* node of listener k is attached; the Listener nodes are under the root in
\* the order of lb.listeners, one per reference when the tree is displayed.
C20_ListenerOrder ==
    (args.type = "lb" /\ lbi >= 1 /\ lb.listeners # <<>>) =>
        LET callAt == ListenerCallsAt
            nodeAt == ListenerNodesAt
            looked == Len(callAt) - 1
            nodes == Len(nodeAt) - 1
        IN /\ looked <= Len(lb.listeners)
           /\ \A k \in 1..looked : calls[callAt[k]].id = lb.listeners[k]
           /\ Cardinality(pending) <= 1
           /\ nodes <= looked
           /\ \A k \in 1..nodes :
                 /\ lb_tree[nodeAt[k]].parent = 1
                 /\ lb_tree[nodeAt[k]].kind = "resource" =>
                       lb_tree[nodeAt[k]].rid = lb.listeners[k]
           /\ \A k \in 1..looked :
                 LET below == SubSeq(calls, callAt[k] + 1, callAt[k + 1] - 1)
                     want == Descent(lb.listeners[k])
                 IN IF k < looked \/ Displayed
                    THEN /\ below = want
                         /\ Cardinality({i \in (nodeAt[k] + 1)..(nodeAt[k + 1] - 1) :
                                            lb_tree[i].kind # "attr"})
                               = Attachments(lb.listeners[k])
                    ELSE /\ Len(below) <= Len(want)
                         /\ below = SubSeq(want, 1, Len(below))
           /\ Displayed => looked = Len(lb.listeners) /\ nodes = Len(lb.listeners)

\* C20's case: a load balancer with two listeners is displayed, and both
\* listeners have a pool with a health monitor and members.
C20_Witness ==
    /\ Displayed
    /\ Len(lb.listeners) = 2
    /\ Len(ListenerCallsAt) = 3
    /\ \A k \in 1..2 : Len(Descent(lb.listeners[k])) >= 3
    /\ lb_tree[ListenerNodesAt[2]].rid = lb.listeners[2]

\* C21: with --no-members the builder issues no member lookup and attaches
\* no Member node, neither a member's nor the "Member: None" node.
C21_NoMembers ==
    (args.type = "lb" /\ lbi >= 1 /\ context.no_members) =>
        /\ Issued(LAMBDA c : c.op = "find_member") = 0
        /\ Labelled("Member") = {}

\* C22: whatever the status string, the rich formatter's format_status wraps
\* it, unchanged, in green for ACTIVE and ONLINE, in yellow for PENDING and
\* in red for every other string; the plain and the JSON formatter return
\* the status itself.
C22_StatusStyle ==
    styled # <<>> =>
        IF formatter = "rich"
        THEN LET color == CASE status_text \in {"ACTIVE", "ONLINE"} -> "green"
                            [] status_text = "PENDING" -> "yellow"
                            [] OTHER -> "red"
             IN styled = <<"[", color, "]", status_text, "[/", color, "]">>
        ELSE styled = <<status_text>>

\* C22's case: the rich formatter has formatted a status that is none of the
\* three with a colour of its own, one that differs from ACTIVE by its case.
C22_Witness ==
    /\ formatter = "rich"
    /\ status_text = "active"
    /\ styled # <<>>

\* C23: a --max-workers text is accepted exactly when it is an integer from
\* 1 to MAX_WORKERS_LIMIT, and then max_workers is that integer; any other
\* text is an argument error (exit status 2) before anything is queried or
\* built; without the option max_workers is the default; so every
\* ProcessingContext has max_workers in 1..MAX_WORKERS_LIMIT.
C23_MaxWorkersValidated ==
    LET valid == argv.isint /\ argv.v >= 1 /\ argv.v <= 32
    IN /\ (argv # NoOption /\ valid) => args # NoArgs /\ args.max_workers = argv.v
       /\ (argv # NoOption /\ ~valid) =>
             /\ args = NoArgs
             /\ pc = "exit"
             /\ exit_status = 2
             /\ context = NoContext
             /\ lbi = 0
       /\ (argv = NoOption /\ args # NoArgs) => args.max_workers = 4
       /\ context # NoContext => context.max_workers >= 1 /\ context.max_workers <= 32
       /\ lbi >= 1 => context # NoContext

\* C23's case: --max-workers 32 was accepted and a tree builder runs with it.
C23_Witness ==
    /\ argv = [isint |-> TRUE, v |-> 32]
    /\ context # NoContext
    /\ context.max_workers = 32
    /\ lbi >= 1

\* The lookups of the current builder that raised.
Errors == {c \in DOMAIN cloud : cloud[c].tag = "error"}

\* C24: an error raised by a listener, pool or health monitor lookup
\* propagates: the builder stops and the tree of its load balancer is not
\* printed; an error raised by a member lookup does not propagate, it is
\* turned into a node of the member.
C24_LookupErrors ==
    \A c \in Errors :
        IF c.op = "find_member"
        THEN /\ raised # c
             /\ \E i \in Labelled("Member") : lb_tree[i].rid = c.id
        ELSE /\ raised = c
             /\ pc = "crashed"
             /\ Len(printed) < lbi

\* C25: the progress bar has been advanced once for every member fetch of the
\* current pool that has completed, so N times when the N members of the pool
\* have been fetched.
C25_ProgressPerFetch ==
    (args.type = "lb" /\ lbi >= 1) =>
        progress_bar = Cardinality({i \in MemberCallsOfPool : calls[i] \notin pending})

\* C26: every pool that was found gets one health monitor node, the
\* "Health Monitor: None" node when the pool has no health_monitor_id (no
\* lookup is issued then) or when the lookup returned None; the node precedes
\* the member nodes of the pool; and the pool gets its member nodes whether
\* the health monitor was found, was absent or was not referenced.
C26_HealthMonitorThenMembers ==
    /\ Issued(LAMBDA c : c.op = "find_health_monitor") <=
          Cardinality({i \in PoolNodes :
              cloud[Call("find_pool", lb_tree[i].rid, None)].health_monitor_id # None})
    /\ \A i \in PoolNodes :
          LET p == cloud[Call("find_pool", lb_tree[i].rid, None)]
              hms == {j \in After(i) : lb_tree[j].label = "Health Monitor"}
              members == {j \in After(i) : lb_tree[j].label = "Member"}
              looking == /\ i = LastWhere(lb_tree, LAMBDA n : n.label = "Pool")
                         /\ pc \in {"add_health_monitor_info", "retrieve_health_monitor"}
          IN /\ Cardinality(hms) <= 1
             /\ (~looking /\ raised.op # "find_health_monitor") => Cardinality(hms) = 1
             /\ \A j \in hms :
                   /\ p.health_monitor_id = None => IsNone(lb_tree[j], "Health Monitor")
                   /\ \A m \in members : j < m
             /\ members # {} => hms # {}
             /\ Displayed =>
                   Cardinality(members) = IF p.members = <<>> THEN 1 ELSE Len(p.members)

\* C26's case: a displayed tree has a pool whose health monitor was found and
\* which has two member nodes after the health monitor's node.
C26_Witness ==
    /\ Displayed
    /\ \E i \in PoolNodes :
          /\ \E j \in After(i) :
                lb_tree[j].label = "Health Monitor" /\ lb_tree[j].kind = "resource"
          /\ Cardinality({j \in After(i) : lb_tree[j].label = "Member"}) = 2

\* The nodes of the tree other than attribute lines, in the order of the tree.
Resources(t) == SelectSeq(t, LAMBDA n : n.kind # "attr")

\* The nodes of members that were looked up: the nodes of those found and
\* the "Member: None" nodes of those not found.
MemberNodes(t) == SelectSeq(t, LAMBDA n : n.label = "Member")

WithAnswer(t, label, r) ==
    IF r.tag = "found"
    THEN LET keys == sorted(Range(to_dict(label)))
         IN t \o <<[parent |-> 1, kind |-> "resource", label |-> label, rid |-> r.id,
                   info |-> <<>>]>>
              \o (IF context.details
                  THEN [k \in 1..Len(keys) |->
                           [parent |-> Len(t) + 1, kind |-> "attr", label |-> "attr",
                            rid |-> keys[k], info |-> <<>>]]
                  ELSE <<>>)
    ELSE t \o <<[parent |-> 1, kind |-> "none", label |-> label, rid |-> None,
                 info |-> <<>>]>>

\* The tree with the nodes of members k.. of pool p, in the order of p.members.
RECURSIVE WithMembers(_, _, _)
WithMembers(t, p, k) ==
    IF k > Len(p.members) THEN t
    ELSE WithMembers(WithAnswer(t, "Member", cloud[Call("find_member", p.members[k], p.id)]),
                     p, k + 1)

\* The tree with what follows the node of listener l that was found.
WithPool(t, l) ==
    IF l.default_pool_id = None THEN WithAnswer(t, "Pool", NoPool)
    ELSE LET p == cloud[Call("find_pool", l.default_pool_id, None)]
             t1 == WithAnswer(t, "Pool", p)
             t2 == IF p.health_monitor_id = None
                   THEN WithAnswer(t1, "Health Monitor", NoListener)
                   ELSE WithAnswer(t1, "Health Monitor",
                                   cloud[Call("find_health_monitor", p.health_monitor_id,
                                              None)])
         IN IF p.tag # "found" THEN t1
            ELSE IF p.members = <<>> THEN WithAnswer(t2, "Member", NoListener)
            ELSE WithMembers(t2, p, 1)

\* The tree with the nodes of listeners k.. of the load balancer, in the
\* order of lb.listeners.
RECURSIVE WithListeners(_, _)
WithListeners(t, k) ==
    IF k > Len(lb.listeners) THEN t
    ELSE LET l == cloud[Call("find_listener", lb.listeners[k], None)]
             t1 == WithAnswer(t, "Listener", l)
         IN WithListeners(IF l.tag = "found" THEN WithPool(t1, l) ELSE t1, k + 1)

\* The tree that the load balancer and the answers to the lookups determine.
TreeOfAnswers ==
    LET keys == sorted(Range(to_dict("LB")))
        root == <<[parent |-> 0, kind |-> "resource", label |-> "LB", rid |-> lb.id,
                   info |-> <<>>]>>
                \o (IF context.details
                    THEN [k \in 1..Len(keys) |->
                             [parent |-> 1, kind |-> "attr", label |-> "attr",
                              rid |-> keys[k], info |-> <<>>]]
                    ELSE <<>>)
    IN IF lb.listeners = <<>> THEN WithAnswer(root, "Listener", NoListener)
       ELSE WithListeners(root, 1)

\* C28: the tree that display_lb_info prints is a function of the load
\* balancer, of the answers of the client and of the details option: the
\* nodes, their labels and the order of the children are the same in every
\* run in which the lookups get the same answers; listener nodes are in the
\* order of lb.listeners and member nodes in the order of pool.members.
C28_Deterministic == Displayed => lb_tree = TreeOfAnswers

\* C28's case: the tree of a load balancer with two listeners, a pool with two
\* members that were found and detailed attributes is complete.
C28_Witness ==
    /\ Displayed
    /\ context.details
    /\ Len(lb.listeners) = 2
    /\ \E i, j \in Labelled("Member") :
          i < j /\ lb_tree[i].kind = "resource" /\ lb_tree[j].kind = "resource"

\* C29: main displays the load balancers one at a time in the order of the
\* query's result: the trees printed are those of the first load balancers,
\* in order, and the lookups of a builder are those of its load balancer.
\* When an error escapes the display of load balancer k the process ends with
\* it: the trees printed are those of load balancers 1..k-1, and from then on
\* no lookup is issued and no tree is printed.
C29_LoopStopsOnError ==
    /\ [](/\ Len(printed) <= lbi
          /\ lbi <= Len(printed) + 1
          /\ \A k \in DOMAIN printed : printed[k] = filtered_lbs[k].id
          /\ \A k \in DOMAIN calls :
                /\ calls[k].op = "find_listener" =>
                      \E j \in DOMAIN lb.listeners : lb.listeners[j] = calls[k].id
                /\ calls[k].op = "amphorae" => calls[k].id = lb.id
          /\ raised # NoCall =>
                /\ pc = "crashed"
                /\ exit_status = 1
                /\ Len(printed) = lbi - 1)
    /\ [][raised # NoCall =>
            /\ lbi' = lbi
            /\ calls' = calls
            /\ image_calls' = image_calls
            /\ printed' = printed
            /\ lb_tree' = lb_tree]_vars

\* C29's case: an error has escaped the display of the first of two load
\* balancers.
C29_Witness ==
    /\ pc = "crashed"
    /\ raised # NoCall
    /\ lbi = 1
    /\ Len(filtered_lbs) = 2
    /\ printed = <<>>

\* C30: when the query raises, or when no load balancer is left after the
\* name filter (every load balancer that is left has the --name text in its
\* name), main prints the error or "No load balancer(s) found." and exits
\* with status 1; no ProcessingContext and no builder is made, no lookup is
\* issued and no tree is built or printed.
C30_NothingFound ==
    /\ \A k \in DOMAIN filtered_lbs : IsSubstring(args.name, LbName(filtered_lbs[k].id))
    /\ (args # NoArgs /\ pc # "main" /\ filtered_lbs = <<>>) =>
          /\ pc = "exit"
          /\ exit_status = 1
          /\ output = <<"No load balancer(s) found.">> \/ output = <<"Error">>
          /\ context = NoContext
          /\ lbi = 0
          /\ calls = <<>>
          /\ image_calls = <<>>
          /\ pending = {}
          /\ lb_tree = <<>>
          /\ printed = <<>>
    /\ output # <<>> => filtered_lbs = <<>>

\* C30's case: the --name text is in the name of no load balancer, and main
\* has printed the message and exited.
C30_Witness ==
    /\ args # NoArgs
    /\ args.name = <<"d">>
    /\ pc = "exit"
    /\ exit_status = 1
    /\ output = <<"No load balancer(s) found.">>

====
